---- MODULE Spec2Model ----
(***************************************************************************)
(* Barber Shop API (src/main.py): the document store, the startup seeder,  *)
(* create_appointment and list_appointments.                               *)
(*                                                                         *)
(* Strings that are inspected character by character (ids) are sequences   *)
(* of character codes; a native id (bson ObjectId) is 12 bytes.  A stored  *)
(* _id is [kind |-> "oid", v |-> bytes] or [kind |-> "str", v |-> chars].  *)
(***************************************************************************)
EXTENDS Integers, Sequences, FiniteSets, TLC

(* ---------------- bounds ---------------- *)
MaxReqs == 2          \* create_appointment requests that can be in flight

Reqs == 1..MaxReqs

(* ---------------- ids ---------------- *)
OidHexLen == 24       \* ObjectId.is_valid: a str is valid iff 24 hex digits
OidByteLen == OidHexLen \div 2

IsHexChar(c) == (c \in 48..57) \/ (c \in 65..70) \/ (c \in 97..102)

\* value of one hex digit, either case (bytes.fromhex)
HexVal(c) == IF c \in 48..57 THEN c - 48
             ELSE IF c \in 65..70 THEN c - 55
             ELSE c - 87

\* lowercase hex digit of a nibble (str(ObjectId) is binascii.hexlify)
HexDigit(n) == IF n < 10 THEN 48 + n ELSE 87 + n

ObjectIdIsValid(s) == Len(s) = OidHexLen /\ \A i \in 1..Len(s) : IsHexChar(s[i])

\* ObjectId(s): the 12 bytes the 24 hex digits spell
ObjectId(s) ==
    [kind |-> "oid",
     v |-> [i \in 1..OidByteLen |-> HexVal(s[2*i - 1]) * 16 + HexVal(s[2*i])]]

\* str(x) of an _id: lowercase hex of an ObjectId, the string itself otherwise
StrOf(id) ==
    IF id.kind = "oid"
    THEN [i \in 1..(2 * Len(id.v)) |->
            IF i % 2 = 1 THEN HexDigit(id.v[(i + 1) \div 2] \div 16)
                         ELSE HexDigit(id.v[i \div 2] % 16)]
    ELSE id.v

\* the key the two-path lookups of lines 171, 172 and 184 query _id with
IdQuery(s) == IF ObjectIdIsValid(s) THEN ObjectId(s) ELSE [kind |-> "str", v |-> s]

\* the n-th ObjectId the driver generates: 9 bytes of timestamp and process
\* entropy, then a 3-byte counter
NewObjectId(n) ==
    [kind |-> "oid",
     v |-> [i \in 1..OidByteLen |->
              IF i <= OidByteLen - 3 THEN 171
              ELSE IF i = OidByteLen - 2 THEN (n \div 65536) % 256
              ELSE IF i = OidByteLen - 1 THEN (n \div 256) % 256
              ELSE n % 256]]

(* ---------------- store ---------------- *)
\* count_documents(filter) / find(filter): equality on every key of the filter
Matches(d, filter) == \A k \in DOMAIN filter : d[k] = filter[k]
CountDocuments(coll, filter) == Cardinality({d \in coll : Matches(d, filter)})
get_documents(coll, filter) == {d \in coll : Matches(d, filter)}

\* create_document: insert with a store-assigned id
create_document(coll, data, n) == coll \cup {[k \in DOMAIN data \cup {"_id"} |->
                                      IF k = "_id" THEN NewObjectId(n) ELSE data[k]]}

serialize_doc(d) ==
    [k \in (DOMAIN d \ {"_id"}) \cup {"id"} |->
        IF k = "id" THEN StrOf(d._id) ELSE d[k]]

(* ---------------- inputs ---------------- *)
SeedServices == <<"Haircut", "Beard Trim", "Haircut + Beard", "Buzz Cut">>
SeedBarbers == <<"Alex", "Jamie", "Riley">>

Upper(s) == [i \in 1..Len(s) |-> IF s[i] \in 97..102 THEN s[i] - 32 ELSE s[i]]

ZeroId == [i \in 1..OidHexLen |-> 48]   \* "000000000000000000000000"
LitService == <<115, 49>>               \* "s1": a service keyed by a plain string
LitBarber == <<98, 49>>                 \* "b1": a barber keyed by a plain string

\* id strings a client may send: the first seeded service / barber of a fresh
\* store, the same barber id in upper case, an id no document has, a plain key
SeededService == StrOf(NewObjectId(0))
SeededBarber == StrOf(NewObjectId(Len(SeedServices)))
Body(s, b, d, t) == [customer_name |-> "Ann", service_id |-> s, barber_id |-> b,
                     date |-> d, time |-> t]
Dates == {"2024-06-01", "2024-06-02"}
Payloads ==
    {Body(SeededService, SeededBarber, "2024-06-01", "14:00"),
     Body(SeededService, SeededBarber, "2024-06-01", "14:30"),
     Body(SeededService, SeededBarber, "2024-06-02", "14:00"),
     Body(SeededService, Upper(SeededBarber), "2024-06-01", "14:00"),
     Body(LitService, LitBarber, "2024-06-01", "14:00"),
     Body(ZeroId, SeededBarber, "2024-06-01", "14:00"),
     Body(SeededService, ZeroId, "2024-06-01", "14:00"),
     Body(ZeroId, ZeroId, "2024-06-01", "14:00")}

None == <<>>          \* an absent string (no query parameter, no id yet)
NoPayload == [customer_name |-> "", service_id |-> None, barber_id |-> None,
              date |-> "", time |-> ""]
\* query strings of GET /api/appointments; "" and None are absent parameters
ListParams == [date : {"", "2024-06-01"}, barber_id : {None, SeededBarber}]

NoResponse == [status |-> 0, detail |-> "", body |-> {}]

(* ---------------- state ---------------- *)
VARIABLES
    dbAvailable,     \* db is not None
    service, barber, appointment,   \* the three collections
    nextOid,         \* ObjectIds generated so far
    seedPc, seedIdx, \* seed_defaults: position, loop index
    pc, payload,     \* per request: position in create_appointment, its body
    service_exists, barber_exists, conflict, inserted_id,   \* its locals
    response,        \* per request: the HTTP response
    calls,           \* per request: the store calls it has issued, in order
    listed           \* the last list_appointments query and its result

storeVars == <<dbAvailable, service, barber, appointment, nextOid>>
seedVars == <<seedPc, seedIdx>>
reqVars == <<pc, payload, service_exists, barber_exists, conflict, inserted_id,
             response, calls>>
listVars == <<listed>>
vars == <<storeVars, seedVars, reqVars, listVars>>

\* a store that other tooling populated before this process started
PreService == {[_id |-> [kind |-> "str", v |-> LitService], name |-> "Custom"]}
PreBarber == {[_id |-> [kind |-> "str", v |-> LitBarber], name |-> "Sam"]}

Init ==
    /\ dbAvailable \in BOOLEAN
    /\ service \in (IF dbAvailable THEN {{}, PreService} ELSE {{}})
    /\ barber \in (IF dbAvailable THEN {{}, PreBarber} ELSE {{}})
    /\ appointment = {}
    /\ nextOid = 0
    /\ seedPc = "idle" /\ seedIdx = 0
    /\ pc = [r \in Reqs |-> "idle"]
    /\ payload = [r \in Reqs |-> NoPayload]
    /\ service_exists = [r \in Reqs |-> 0]
    /\ barber_exists = [r \in Reqs |-> 0]
    /\ conflict = [r \in Reqs |-> 0]
    /\ inserted_id = [r \in Reqs |-> None]
    /\ response = [r \in Reqs |-> NoResponse]
    /\ calls = [r \in Reqs |-> <<>>]
    /\ listed = [date |-> "", barber_id |-> None, docs |-> {}]

(* ---------------- seed_defaults ---------------- *)
\* a process start (the first or a restart) enters the startup hook; line 86
\* returns when db is None
SeedStart ==
    /\ seedPc \in {"idle", "done"}
    /\ seedPc' = IF dbAvailable THEN "l89" ELSE "done"
    /\ UNCHANGED <<seedIdx, storeVars, reqVars, listVars>>

\* faulty variant of SeedCheckServices: seeds without looking at the count
SeedCheckServicesAlways ==
    /\ seedPc = "l89"
    /\ seedPc' = "l97" /\ seedIdx' = 1
    /\ UNCHANGED <<storeVars, reqVars, listVars>>

\* line 89: db.service.count_documents({}) == 0
SeedCheckServices ==
    /\ seedPc = "l89"
    /\ IF CountDocuments(service, <<>>) = 0
       THEN seedPc' = "l97" /\ seedIdx' = 1
       ELSE seedPc' = "l99" /\ seedIdx' = seedIdx
    /\ UNCHANGED <<storeVars, reqVars, listVars>>

\* lines 96-97: one create_document("service", ...) of the loop
SeedInsertService ==
    /\ seedPc = "l97"
    /\ service' = create_document(service, [name |-> SeedServices[seedIdx]], nextOid)
    /\ nextOid' = nextOid + 1
    /\ IF seedIdx < Len(SeedServices)
       THEN seedIdx' = seedIdx + 1 /\ seedPc' = seedPc
       ELSE seedIdx' = 0 /\ seedPc' = "l99"
    /\ UNCHANGED <<dbAvailable, barber, appointment, reqVars, listVars>>

\* line 99: db.barber.count_documents({}) == 0
SeedCheckBarbers ==
    /\ seedPc = "l99"
    /\ IF CountDocuments(barber, <<>>) = 0
       THEN seedPc' = "l106" /\ seedIdx' = 1
       ELSE seedPc' = "done" /\ seedIdx' = seedIdx
    /\ UNCHANGED <<storeVars, reqVars, listVars>>

\* lines 105-106: one create_document("barber", ...) of the loop
SeedInsertBarber ==
    /\ seedPc = "l106"
    /\ barber' = create_document(barber, [name |-> SeedBarbers[seedIdx]], nextOid)
    /\ nextOid' = nextOid + 1
    /\ IF seedIdx < Len(SeedBarbers)
       THEN seedIdx' = seedIdx + 1 /\ seedPc' = seedPc
       ELSE seedIdx' = 0 /\ seedPc' = "done"
    /\ UNCHANGED <<dbAvailable, service, appointment, reqVars, listVars>>

(* ---------------- create_appointment ---------------- *)
\* one action per store round-trip; the statements that follow a call and
\* touch only the handler's locals belong to the action of that call
Reply(r, status, detail, body) ==
    /\ response' = [response EXCEPT ![r] = [status |-> status, detail |-> detail,
                                            body |-> body]]
    /\ pc' = [pc EXCEPT ![r] = "done"]
    /\ service_exists' = [service_exists EXCEPT ![r] = 0]
    /\ barber_exists' = [barber_exists EXCEPT ![r] = 0]
    /\ conflict' = [conflict EXCEPT ![r] = 0]
    /\ inserted_id' = [inserted_id EXCEPT ![r] = None]

Issue(r, call) == calls' = [calls EXCEPT ![r] = Append(@, call)]

\* lines 166-171: the request arrives with a body of the Appointment schema;
\* db is None -> 500; else service_exists = db.service.count_documents(...)
CountService(r) ==
    /\ pc[r] = "idle"
    /\ \A q \in Reqs : q < r => pc[q] # "idle"   \* numbered in order of arrival
    /\ \E p \in Payloads :
         /\ payload' = [payload EXCEPT ![r] = p]
         /\ IF dbAvailable
            THEN /\ service_exists' = [service_exists EXCEPT ![r] =
                        CountDocuments(service, [_id |-> IdQuery(p.service_id)])]
                 /\ Issue(r, "service.count")
                 /\ pc' = [pc EXCEPT ![r] = "l172"]
                 /\ UNCHANGED <<barber_exists, conflict, inserted_id, response>>
            ELSE /\ Reply(r, 500, "Database not available", {})
                 /\ calls' = calls
    /\ UNCHANGED <<storeVars, seedVars, listVars>>

\* faulty variant of CountBarber: the service count is never checked
CountBarberNoServiceCheck(r) ==
    /\ pc[r] = "l172"
    /\ Issue(r, "barber.count")
    /\ LET n == CountDocuments(barber, [_id |-> IdQuery(payload[r].barber_id)])
       IN  IF n = 0
           THEN Reply(r, 400, "Invalid barber_id", {})
           ELSE /\ barber_exists' = [barber_exists EXCEPT ![r] = n]
                /\ pc' = [pc EXCEPT ![r] = "l179"]
                /\ UNCHANGED <<service_exists, conflict, inserted_id, response>>
    /\ UNCHANGED <<payload, storeVars, seedVars, listVars>>

\* faulty variant of CountBarber: the barber check comes first
CountBarberBarberFirst(r) ==
    /\ pc[r] = "l172"
    /\ Issue(r, "barber.count")
    /\ LET n == CountDocuments(barber, [_id |-> IdQuery(payload[r].barber_id)])
       IN  IF n = 0
           THEN Reply(r, 400, "Invalid barber_id", {})
           ELSE IF service_exists[r] = 0
           THEN Reply(r, 400, "Invalid service_id", {})
           ELSE /\ barber_exists' = [barber_exists EXCEPT ![r] = n]
                /\ pc' = [pc EXCEPT ![r] = "l179"]
                /\ UNCHANGED <<service_exists, conflict, inserted_id, response>>
    /\ UNCHANGED <<payload, storeVars, seedVars, listVars>>

\* faulty variant of CountBarber: the barber count is never checked
CountBarberNoBarberCheck(r) ==
    /\ pc[r] = "l172"
    /\ Issue(r, "barber.count")
    /\ LET n == CountDocuments(barber, [_id |-> IdQuery(payload[r].barber_id)])
       IN  IF service_exists[r] = 0
           THEN Reply(r, 400, "Invalid service_id", {})
           ELSE /\ barber_exists' = [barber_exists EXCEPT ![r] = n]
                /\ pc' = [pc EXCEPT ![r] = "l179"]
                /\ UNCHANGED <<service_exists, conflict, inserted_id, response>>
    /\ UNCHANGED <<payload, storeVars, seedVars, listVars>>

\* variant of CountBarber that checks the service count before the barber
\* lookup is issued
CountBarberShortCircuit(r) ==
    /\ pc[r] = "l172"
    /\ calls' = [calls EXCEPT ![r] = IF service_exists[r] = 0 THEN @
                                     ELSE Append(@, "barber.count")]
    /\ LET n == CountDocuments(barber, [_id |-> IdQuery(payload[r].barber_id)])
       IN  IF service_exists[r] = 0
           THEN Reply(r, 400, "Invalid service_id", {})
           ELSE IF n = 0
           THEN Reply(r, 400, "Invalid barber_id", {})
           ELSE /\ barber_exists' = [barber_exists EXCEPT ![r] = n]
                /\ pc' = [pc EXCEPT ![r] = "l179"]
                /\ UNCHANGED <<service_exists, conflict, inserted_id, response>>
    /\ UNCHANGED <<payload, storeVars, seedVars, listVars>>

\* lines 172-176: barber_exists = db.barber.count_documents(...), then the two
\* checks, service first
CountBarber(r) ==
    /\ pc[r] = "l172"
    /\ Issue(r, "barber.count")
    /\ LET n == CountDocuments(barber, [_id |-> IdQuery(payload[r].barber_id)])
       IN  IF service_exists[r] = 0
           THEN Reply(r, 400, "Invalid service_id", {})
           ELSE IF n = 0
           THEN Reply(r, 400, "Invalid barber_id", {})
           ELSE /\ barber_exists' = [barber_exists EXCEPT ![r] = n]
                /\ pc' = [pc EXCEPT ![r] = "l179"]
                /\ UNCHANGED <<service_exists, conflict, inserted_id, response>>
    /\ UNCHANGED <<payload, storeVars, seedVars, listVars>>

\* faulty variants of ConflictFilter: the barber key filled from the wrong
\* field; the time key left out
ConflictFilterWrongField(p) ==
    [barber_id |-> p.service_id, date |-> p.date, time |-> p.time]
ConflictFilterNoTime(p) == [barber_id |-> p.barber_id, date |-> p.date]

\* the filter of line 179: the three fields as the strings the client sent
ConflictFilter(p) == [barber_id |-> p.barber_id, date |-> p.date, time |-> p.time]

\* faulty variant of CountConflict: rejects only from the second conflict on
CountConflictOffByOne(r) ==
    /\ pc[r] = "l179"
    /\ Issue(r, "appointment.count")
    /\ LET n == CountDocuments(appointment, ConflictFilter(payload[r]))
       IN  IF n > 1
           THEN Reply(r, 409, "Time slot already booked for this barber", {})
           ELSE /\ conflict' = [conflict EXCEPT ![r] = n]
                /\ pc' = [pc EXCEPT ![r] = "l183"]
                /\ UNCHANGED <<service_exists, barber_exists, inserted_id, response>>
    /\ UNCHANGED <<payload, storeVars, seedVars, listVars>>

\* lines 179-181: conflict = db.appointment.count_documents({...}); > 0 -> 409
CountConflict(r) ==
    /\ pc[r] = "l179"
    /\ Issue(r, "appointment.count")
    /\ LET n == CountDocuments(appointment, ConflictFilter(payload[r]))
       IN  IF n > 0
           THEN Reply(r, 409, "Time slot already booked for this barber", {})
           ELSE /\ conflict' = [conflict EXCEPT ![r] = n]
                /\ pc' = [pc EXCEPT ![r] = "l183"]
                /\ UNCHANGED <<service_exists, barber_exists, inserted_id, response>>
    /\ UNCHANGED <<payload, storeVars, seedVars, listVars>>

\* line 183: inserted_id = create_document("appointment", payload)
Insert(r) ==
    /\ pc[r] = "l183"
    /\ appointment' = create_document(appointment, payload[r], nextOid)
    /\ inserted_id' = [inserted_id EXCEPT ![r] = StrOf(NewObjectId(nextOid))]
    /\ nextOid' = nextOid + 1
    /\ Issue(r, "appointment.insert")
    /\ pc' = [pc EXCEPT ![r] = "l184"]
    /\ UNCHANGED <<payload, service_exists, barber_exists, conflict, response,
                   dbAvailable, service, barber, seedVars, listVars>>

\* lines 184-185: find_one by the new id, return the serialized document
ReadBack(r) ==
    /\ pc[r] = "l184"
    /\ Issue(r, "appointment.find_one")
    /\ Reply(r, 200, "",
             {serialize_doc(d) : d \in
                 get_documents(appointment, [_id |-> IdQuery(inserted_id[r])])})
    /\ UNCHANGED <<payload, storeVars, seedVars, listVars>>

(* ---------------- list_appointments ---------------- *)
\* faulty variant of ListQuery: the barber_id parameter is dropped
ListQueryNoBarber(date, barber_id) ==
    [k \in (IF date # "" THEN {"date"} ELSE {}) |-> date]

\* lines 156-161: a parameter that is absent or empty adds no key
ListQuery(date, barber_id) ==
    [k \in (IF date # "" THEN {"date"} ELSE {}) \cup
           (IF barber_id # None THEN {"barber_id"} ELSE {}) |->
        IF k = "date" THEN date ELSE barber_id]

\* lines 152-163, one store call
list_appointments ==
    /\ \E q \in ListParams :
         listed' = [date |-> q.date, barber_id |-> q.barber_id,
                    docs |-> IF dbAvailable
                             THEN {serialize_doc(d) : d \in
                                     get_documents(appointment,
                                                   ListQuery(q.date, q.barber_id))}
                             ELSE {}]
    /\ UNCHANGED <<storeVars, seedVars, reqVars>>

(* ---------------- specifications ---------------- *)
Step(r) ==
    \/ CountService(r)
    \/ CountBarber(r)
    \/ CountConflict(r)
    \/ Insert(r)
    \/ ReadBack(r)

Seed ==
    \/ SeedStart
    \/ SeedCheckServices
    \/ SeedInsertService
    \/ SeedCheckBarbers
    \/ SeedInsertBarber

InFlight(r) == pc[r] \notin {"idle", "done"}
Seeding == seedPc \notin {"idle", "done"}

\* the route layer dispatches requests in parallel: any interleaving of the
\* store calls of the requests and of the seeder (list_appointments writes
\* nothing and is left to SeqSpec)
Next ==
    \/ \E r \in Reqs : Step(r)
    \/ Seed

Spec == Init /\ [][Next]_vars

\* sequential arrival: a handler starts only when no other handler is running
Alone(r) == ~Seeding /\ \A q \in Reqs \ {r} : ~InFlight(q)
SeqNext ==
    \/ \E r \in Reqs : Alone(r) /\ Step(r)
    \/ (\A q \in Reqs : ~InFlight(q)) /\ Seed
    \/ (~Seeding /\ \A q \in Reqs : ~InFlight(q)) /\ list_appointments

SeqSpec == Init /\ [][SeqNext]_vars

(* ---------------- properties ---------------- *)
SameSlot(a, b) == a.barber_id = b.barber_id /\ a.date = b.date /\ a.time = b.time
DoubleBooked(coll) == \E a, b \in coll : a # b /\ SameSlot(a, b)

\* the document the store holds under the id string s, if any
ServicePresent(s) == \E d \in service : d._id = IdQuery(s)
BarberPresent(s) == \E d \in barber : d._id = IdQuery(s)

Moves(r) == pc'[r] # pc[r]
Rejected(r, status, detail) ==
    pc[r] = "done" /\ response[r].status = status /\ response[r].detail = detail

\* C1: with requests handled one at a time, no two distinct persisted
\* appointments have the same barber_id string, date and time.
C1_SlotsUniqueSequential == ~DoubleBooked(appointment)

C1_Witness ==
    \E a, b \in appointment :
        a # b /\ a.barber_id = b.barber_id /\ a.date = b.date /\ a.time # b.time

\* C2: with interleaved requests a slot can be booked twice, and every such
\* double booking is a stale check: the insert that creates it is made by a
\* request that counted zero conflicts although the store already holds an
\* appointment for its slot.
C2_DoubleBookingIsStaleCheck ==
    [][(~DoubleBooked(appointment) /\ DoubleBooked(appointment')) =>
         \E r \in Reqs :
            /\ pc[r] = "l183" /\ pc'[r] = "l184"
            /\ conflict[r] = 0
            /\ \E a \in appointment : SameSlot(a, payload[r])]_vars

C2_Witness == DoubleBooked(appointment)

\* C3: a request whose service_id matches no service is answered
\* 400 "Invalid service_id" and none of its steps changes the appointments.
C3_InvalidServiceRejected ==
    [][\A r \in Reqs :
         (Moves(r) /\ dbAvailable /\ ~ServicePresent(payload'[r].service_id)) =>
            /\ appointment' = appointment
            /\ pc'[r] \in {"l172", "done"}
            /\ pc'[r] = "done" =>
                 response'[r] = [status |-> 400, detail |-> "Invalid service_id",
                                 body |-> {}]]_vars

C3_Witness ==
    \E r \in Reqs : /\ Rejected(r, 400, "Invalid service_id")
                    /\ BarberPresent(payload[r].barber_id)
                    /\ ~ServicePresent(payload[r].service_id)

\* C4: a request whose service_id is valid and whose barber_id matches no
\* barber is answered 400 "Invalid barber_id" and persists nothing; when
\* both are invalid the rejection names service_id.
C4_InvalidBarberRejected ==
    [][\A r \in Reqs :
         (Moves(r) /\ dbAvailable /\ ~BarberPresent(payload'[r].barber_id)) =>
            /\ appointment' = appointment
            /\ pc'[r] \in {"l172", "done"}
            /\ pc'[r] = "done" =>
                 response'[r] =
                    [status |-> 400,
                     detail |-> IF ServicePresent(payload'[r].service_id)
                                THEN "Invalid barber_id" ELSE "Invalid service_id",
                     body |-> {}]]_vars

C4_Witness ==
    /\ \E r \in Reqs : /\ Rejected(r, 400, "Invalid barber_id")
                       /\ ServicePresent(payload[r].service_id)
                       /\ ~BarberPresent(payload[r].barber_id)
    /\ \E r \in Reqs : /\ Rejected(r, 400, "Invalid service_id")
                       /\ ~BarberPresent(payload[r].barber_id)

\* C5: a request handled alone whose references both exist is answered 409
\* with the appointments unchanged exactly when an appointment with its
\* barber_id string, date and time is persisted, and otherwise succeeds and
\* adds exactly one appointment; 409 is never the answer when a reference is
\* invalid.
C5_ConflictIffSlotTaken ==
    [][\A r \in Reqs :
         LET p == payload[r]
             taken == \E a \in appointment : SameSlot(a, p)
             valid == ServicePresent(p.service_id) /\ BarberPresent(p.barber_id)
         IN  /\ (Moves(r) /\ pc[r] = "l172" /\ valid) => pc'[r] = "l179"
             /\ (Moves(r) /\ pc[r] = "l179") =>
                   /\ valid
                   /\ appointment' = appointment
                   /\ IF taken
                      THEN /\ pc'[r] = "done"
                           /\ response'[r] =
                                [status |-> 409,
                                 detail |-> "Time slot already booked for this barber",
                                 body |-> {}]
                      ELSE pc'[r] = "l183"
             /\ (Moves(r) /\ pc[r] = "l183") =>
                   /\ pc'[r] = "l184"
                   /\ Cardinality(appointment') = Cardinality(appointment) + 1
                   /\ \E d \in appointment' \ appointment :
                         /\ appointment' = appointment \cup {d}
                         /\ SameSlot(d, p) /\ d.service_id = p.service_id
             /\ (Moves(r) /\ pc[r] = "l184") =>
                   /\ appointment' = appointment
                   /\ pc'[r] = "done" /\ response'[r].status = 200
             /\ (pc'[r] = "done" /\ response'[r].status = 409) =>
                   pc[r] \in {"l179", "done"}]_vars

C5_Witness ==
    \E r \in Reqs :
        /\ Rejected(r, 409, "Time slot already booked for this barber")
        /\ \E a \in appointment : SameSlot(a, payload[r])
        /\ Cardinality(appointment) = 1

\* C6: under any interleaving of requests and the seeder, every persisted
\* appointment's service_id identifies a service and its barber_id a barber.
C6_ReferencesExist ==
    \A a \in appointment : ServicePresent(a.service_id) /\ BarberPresent(a.barber_id)

C6_Witness == appointment # {} /\ Seeding

\* C7: with requests handled one at a time, no two distinct persisted
\* appointments whose barber_id strings resolve to the same barber share
\* date and time.
C7_NoBarberDoubleBooked ==
    ~\E a, b \in appointment :
        /\ a # b
        /\ IdQuery(a.barber_id) = IdQuery(b.barber_id)
        /\ a.date = b.date /\ a.time = b.time

\* C8: on an empty store the seeder leaves exactly 4 services and 3 barbers;
\* each collection is seeded exactly when the seeder finds it empty, whatever
\* the other holds, and a run that finds a collection non-empty leaves it as
\* it is.
C8_SeedOnlyWhenEmpty ==
    [][/\ (seedPc = "l89" /\ seedPc' # seedPc) =>
             seedPc' = (IF service = {} THEN "l97" ELSE "l99")
       /\ (seedPc = "l99" /\ seedPc' # seedPc) =>
             seedPc' = (IF barber = {} THEN "l106" ELSE "done")
       /\ (seedPc = "l97" /\ seedPc' = "l99") =>
             /\ Cardinality(service') = 4
             /\ {d.name : d \in service'} = {SeedServices[i] : i \in 1..4}
       /\ (seedPc = "l106" /\ seedPc' = "done") =>
             /\ Cardinality(barber') = 3
             /\ {d.name : d \in barber'} = {SeedBarbers[i] : i \in 1..3}
       /\ service' # service => seedPc = "l97"
       /\ barber' # barber => seedPc = "l106"]_vars

\* a second run has passed the service check of a store seeded by the first
C8_Witness ==
    seedPc = "l99" /\ Cardinality(service) = 4 /\ Cardinality(barber) = 3

\* C9: list_appointments(date, barber_id) returns exactly the persisted
\* appointments whose date is the given date (when one is given) and whose
\* barber_id string is the given one (when one is given).
C9_ListReturnsMatching ==
    [][listed' # listed =>
         listed'.docs =
            {[id |-> StrOf(d._id), customer_name |-> d.customer_name,
              service_id |-> d.service_id, barber_id |-> d.barber_id,
              date |-> d.date, time |-> d.time] :
                d \in {a \in appointment :
                         /\ listed'.date # "" => a.date = listed'.date
                         /\ listed'.barber_id # None =>
                               a.barber_id = listed'.barber_id}}]_vars

\* the listing on a barber holds the appointment created for that barber and
\* leaves out the one created under another barber_id string
C9_Witness ==
    /\ listed.barber_id = SeededBarber
    /\ Cardinality(listed.docs) = 1
    /\ Cardinality(appointment) = 2
    /\ \E r \in Reqs : pc[r] = "done" /\ response[r].body = listed.docs

StoreCalls == <<"service.count", "barber.count", "appointment.count",
                "appointment.insert", "appointment.find_one">>
Answered(r, status) == pc[r] = "done" /\ response[r].status = status

\* C10 as stated: the store calls come in the order service lookup, barber
\* lookup, conflict count, insert, and a request rejected for its service_id
\* has issued no barber lookup, no conflict count and no insert; one rejected
\* for its barber_id no conflict count and no insert.
C10_ShortCircuitAsStated ==
    \A r \in Reqs :
        /\ calls[r] = SubSeq(StoreCalls, 1, Len(calls[r]))
        /\ Rejected(r, 400, "Invalid service_id") => calls[r] = SubSeq(StoreCalls, 1, 1)
        /\ Rejected(r, 400, "Invalid barber_id") => calls[r] = SubSeq(StoreCalls, 1, 2)

\* C10 amended: the store calls come in that order, but both lookups are
\* issued before either count is checked: a request rejected for its
\* service_id or for its barber_id has issued exactly the service lookup and
\* the barber lookup, and no conflict count and no insert.
C10_OrderedCalls ==
    \A r \in Reqs :
        /\ calls[r] = SubSeq(StoreCalls, 1, Len(calls[r]))
        /\ Answered(r, 400) => calls[r] = SubSeq(StoreCalls, 1, 2)
        /\ Answered(r, 409) => calls[r] = SubSeq(StoreCalls, 1, 3)
        /\ Answered(r, 200) => calls[r] = StoreCalls

C10_Witness ==
    /\ \E r \in Reqs : Rejected(r, 400, "Invalid service_id") /\ Len(calls[r]) = 2
    /\ \E r \in Reqs : Rejected(r, 400, "Invalid barber_id")

====
